---- MODULE Spec2Model ----
(***************************************************************************)
(* Employee Management System (EMS.py): the persistence gateway            *)
(* (class Database), the ordinal-identifier mapping (id_mapping) and the   *)
(* session controller (class EmployeeManagementSystem).                    *)
(*                                                                         *)
(* Python values are modelled as tagged records [kind, val]: True, False,  *)
(* None, an Employee, a list of Employees, a user document.  Text is a     *)
(* sequence of one-character strings, so that validators, conversions and  *)
(* the search see the characters.  An ObjectId is a positive integer; the  *)
(* store hands out 1, 2, 3, ... and never reuses one.                      *)
(*                                                                         *)
(* A store operation of the driver either raises AutoReconnect (the        *)
(* "fault" input of each gateway operation) and has no effect, or is       *)
(* carried out.                                                            *)
(***************************************************************************)
EXTENDS Integers, Sequences, FiniteSets, TLC

VARIABLES
    staff,        \* the 'staff' collection: documents in natural (insertion) order
    nextId,       \* the next ObjectId the store assigns
    id_mapping,   \* EmployeeManagementSystem.id_mapping: ordinal -> ObjectId
    stack,        \* the call stack of controller activations, innermost last
    inp,          \* what the operator entered in the last step
    out,          \* the diagnostics printed by the last step
    calls,        \* the gateway calls issued by the last step, in order
    shown,        \* the table display_employees_list printed for the pending prompt
    lastLogin,    \* history: the last credential check since process start or logout
    unrefreshed   \* history: inserts/deletes since id_mapping was last assigned from a fetched list

vars == <<staff, nextId, id_mapping, stack, inp, out, calls, shown, lastLogin, unrefreshed>>

(***************************************************************************)
(* Bounds of the model.                                                    *)
(***************************************************************************)
MaxStaff == 2
MaxIds == 3
MaxDepth == 7
MaxTokenLen == 3

NoneId == 0

\* The length validate_phone asks for, the least salary, the ages accepted.
PhoneLength == 10
MinSalary == 500
MinAge == 18
MaxAge == 99

(***************************************************************************)
(* Python values.                                                          *)
(***************************************************************************)
PyTrue == [kind |-> "True", val |-> <<>>]
PyFalse == [kind |-> "False", val |-> <<>>]
PyNone == [kind |-> "None", val |-> <<>>]
PyEmployee(e) == [kind |-> "Employee", val |-> <<e>>]
PyList(l) == [kind |-> "list", val |-> l]
PyDict(d) == [kind |-> "dict", val |-> <<d>>]

\* An exception leaving a call instead of a value.
Raise(exc) == [kind |-> "raise", val |-> <<exc>>]

\* Python truthiness of the values above (if x: / if not x:).
Truthy(v) ==
    \/ v.kind = "True"
    \/ v.kind = "Employee"
    \/ v.kind = "dict"
    \/ v.kind = "list" /\ v.val # <<>>

(***************************************************************************)
(* The record type.                                                        *)
(***************************************************************************)
Employee(name, designation, salary, age, phone, address) ==
    [name |-> name, designation |-> designation, salary |-> salary,
     age |-> age, phone |-> phone, address |-> address, _id |-> NoneId]

\* Employee(**emp): a stored document, _id included, unpacked into the dataclass.
EmployeeFromDoc(emp) ==
    [name |-> emp.name, designation |-> emp.designation, salary |-> emp.salary,
     age |-> emp.age, phone |-> emp.phone, address |-> emp.address, _id |-> emp._id]

get_id(e) == e._id

\* Mutant of to_dict: the phone entry is filled from the age attribute.
to_dict_phone_from_age(e) ==
    [name |-> e.name, designation |-> e.designation, salary |-> e.salary,
     age |-> e.age, phone |-> e.age, address |-> e.address]

\* The six data fields, without the identifier.
to_dict(e) ==
    [name |-> e.name, designation |-> e.designation, salary |-> e.salary,
     age |-> e.age, phone |-> e.phone, address |-> e.address]

SixFieldsEqual(a, b) ==
    /\ a.name = b.name
    /\ a.designation = b.designation
    /\ a.salary = b.salary
    /\ a.age = b.age
    /\ a.phone = b.phone
    /\ a.address = b.address

(***************************************************************************)
(* The document store (pymongo collections), as the gateway uses it.       *)
(***************************************************************************)
\* Index of the first document with this _id, 0 when there is none.
IndexOfId(coll, emp_id) ==
    IF \E i \in 1..Len(coll) : coll[i]._id = emp_id
    THEN CHOOSE i \in 1..Len(coll) :
            /\ coll[i]._id = emp_id
            /\ \A j \in 1..(i - 1) : coll[j]._id # emp_id
    ELSE 0

\* collection.find_one({"_id": emp_id}): the document, or None.
find_one(coll, emp_id) ==
    LET i == IndexOfId(coll, emp_id)
    IN IF i = 0 THEN PyNone ELSE PyDict(coll[i])

\* collection.insert_one(data): the store assigns the next ObjectId.
insert_one(coll, nid, data) ==
    [inserted_id |-> nid,
     staff |-> Append(coll, [name |-> data.name, designation |-> data.designation,
                             salary |-> data.salary, age |-> data.age,
                             phone |-> data.phone, address |-> data.address,
                             _id |-> nid])]

\* Mutant of update_one: once a document matches, every document of the
\* collection gets the six fields.
update_one_every_document(coll, emp_id, data) ==
    LET i == IndexOfId(coll, emp_id)
    IN IF i = 0
       THEN [matched_count |-> 0, modified_count |-> 0, staff |-> coll]
       ELSE IF SixFieldsEqual(coll[i], data)
            THEN [matched_count |-> 1, modified_count |-> 0, staff |-> coll]
            ELSE [matched_count |-> 1, modified_count |-> 1,
                  staff |-> [k \in 1..Len(coll) |->
                               [name |-> data.name, designation |-> data.designation,
                                salary |-> data.salary, age |-> data.age,
                                phone |-> data.phone, address |-> data.address,
                                _id |-> coll[k]._id]]]

\* collection.update_one({"_id": emp_id}, {"$set": data}): the first matching
\* document gets the six fields; it counts as modified only if one of them changed.
update_one(coll, emp_id, data) ==
    LET i == IndexOfId(coll, emp_id)
    IN IF i = 0
       THEN [matched_count |-> 0, modified_count |-> 0, staff |-> coll]
       ELSE IF SixFieldsEqual(coll[i], data)
            THEN [matched_count |-> 1, modified_count |-> 0, staff |-> coll]
            ELSE [matched_count |-> 1, modified_count |-> 1,
                  staff |-> [coll EXCEPT ![i] =
                               [name |-> data.name, designation |-> data.designation,
                                salary |-> data.salary, age |-> data.age,
                                phone |-> data.phone, address |-> data.address,
                                _id |-> coll[i]._id]]]

\* Mutant of delete_one: the filter is ignored, the first document goes.
delete_one_first(coll, emp_id) ==
    IF coll = <<>>
    THEN [deleted_count |-> 0, staff |-> coll]
    ELSE [deleted_count |-> 1, staff |-> Tail(coll)]

\* collection.delete_one({"_id": emp_id}): removes the first matching document.
delete_one(coll, emp_id) ==
    LET i == IndexOfId(coll, emp_id)
    IN IF i = 0
       THEN [deleted_count |-> 0, staff |-> coll]
       ELSE [deleted_count |-> 1,
             staff |-> SubSeq(coll, 1, i - 1) \o SubSeq(coll, i + 1, Len(coll))]

(***************************************************************************)
(* The 'users' collection: read-only credential documents.                 *)
(***************************************************************************)
users ==
    << [email |-> <<"a">>, password |-> <<"p">>] >>

\* users.find_one({"email": email})
find_one_user(email) ==
    IF \E i \in 1..Len(users) : users[i].email = email
    THEN PyDict(users[CHOOSE i \in 1..Len(users) :
                        /\ users[i].email = email
                        /\ \A j \in 1..(i - 1) : users[j].email # email])
    ELSE PyNone

(***************************************************************************)
(* Text: case folding and substring search (the "$regex" of a term made of *)
(* letters, digits and spaces, with "$options": "i").                      *)
(***************************************************************************)
Upper == <<"A", "B", "E", "M">>
Lower == <<"a", "b", "e", "m">>

LowerChar(c) ==
    IF \E i \in 1..Len(Upper) : Upper[i] = c
    THEN Lower[CHOOSE i \in 1..Len(Upper) : Upper[i] = c]
    ELSE c

LowerText(t) == [i \in 1..Len(t) |-> LowerChar(t[i])]

Contains(text, term) ==
    \E i \in 0..(Len(text) - Len(term)) :
        \A j \in 1..Len(term) : text[i + j] = term[j]

\* Mutant of ContainsIgnoreCase: the match without "$options": "i".
ContainsCaseSensitive(text, term) == Contains(text, term)

ContainsIgnoreCase(text, term) == Contains(LowerText(text), LowerText(term))

(***************************************************************************)
(* The persistence gateway (class Database).  Each operation returns the   *)
(* Python value it returns ("ret") and the collection it leaves ("staff"). *)
(***************************************************************************)
find_user_by_email(email, fault) ==
    IF fault THEN PyFalse ELSE find_one_user(email)

\* employee_list: one Employee(**emp) per document, in cursor order.
EmployeesOf(coll) == [i \in 1..Len(coll) |-> EmployeeFromDoc(coll[i])]

\* Mutant of get_employee_list: the empty list on AutoReconnect.
get_employee_list_fault_empty(coll, fault) ==
    IF fault THEN PyList(<<>>) ELSE PyList(EmployeesOf(coll))

get_employee_list(coll, fault) ==
    IF fault THEN PyNone ELSE PyList(EmployeesOf(coll))

insert_employee(coll, nid, employee, fault) ==
    IF fault
    THEN [ret |-> PyFalse, staff |-> coll, nextId |-> nid]
    ELSE LET result == insert_one(coll, nid, to_dict(employee))
         IN [ret |-> IF result.inserted_id # NoneId THEN PyTrue ELSE PyFalse,
             staff |-> result.staff, nextId |-> nid + 1]

get_employee_by_id(coll, emp_id, fault) ==
    IF fault
    THEN PyFalse
    ELSE LET emp == find_one(coll, emp_id)
         IN IF Truthy(emp) THEN PyEmployee(EmployeeFromDoc(emp.val[1])) ELSE PyNone

\* Mutant of update_employee_by_id: success is decided on matched_count.
update_employee_by_id_matched(coll, emp_id, employee, fault) ==
    IF fault
    THEN [ret |-> PyFalse, staff |-> coll]
    ELSE LET update_result == update_one(coll, emp_id, to_dict(employee))
         IN [ret |-> IF update_result.matched_count > 0 THEN PyTrue ELSE PyNone,
             staff |-> update_result.staff]

update_employee_by_id(coll, emp_id, employee, fault) ==
    IF fault
    THEN [ret |-> PyFalse, staff |-> coll]
    ELSE LET update_result == update_one(coll, emp_id, to_dict(employee))
         IN [ret |-> IF update_result.modified_count > 0 THEN PyTrue ELSE PyNone,
             staff |-> update_result.staff]

\* Mutant of remove_employee_by_id: an acknowledged delete counts as a removal.
remove_employee_by_id_acknowledged(coll, emp_id, fault) ==
    IF fault
    THEN [ret |-> PyFalse, staff |-> coll]
    ELSE [ret |-> PyTrue, staff |-> delete_one(coll, emp_id).staff]

remove_employee_by_id(coll, emp_id, fault) ==
    IF fault
    THEN [ret |-> PyFalse, staff |-> coll]
    ELSE LET delete_result == delete_one(coll, emp_id)
         IN [ret |-> IF delete_result.deleted_count > 0 THEN PyTrue ELSE PyFalse,
             staff |-> delete_result.staff]

\* The "$or" of the three "$regex" conditions.
SearchMatch(emp, term) ==
    \/ ContainsIgnoreCase(emp.name, term)
    \/ ContainsIgnoreCase(emp.designation, term)
    \/ ContainsIgnoreCase(emp.address, term)

RECURSIVE find_matching(_, _)
\* staff.find({"$or": [...]}): the matching documents, in cursor order.
find_matching(coll, term) ==
    IF coll = <<>> THEN <<>>
    ELSE (IF SearchMatch(Head(coll), term) THEN <<Head(coll)>> ELSE <<>>)
         \o find_matching(Tail(coll), term)

search_employee(coll, term, fault) ==
    IF fault
    THEN PyList(<<>>)
    ELSE PyList(EmployeesOf(find_matching(coll, term)))

(***************************************************************************)
(* The ordinal-identifier mapping.                                         *)
(***************************************************************************)
EmptyMapping == [k \in {} |-> NoneId]

\* for i, emp in enumerate(employees, start=1): mapping[i] = emp.get_id()
\* on top of the entries the mapping already holds.
AssignEnumerated(mapping, employees) ==
    [k \in (DOMAIN mapping) \cup (1..Len(employees)) |->
        IF k \in 1..Len(employees) THEN get_id(employees[k]) ELSE mapping[k]]

\* Mutant of update_id_mapping: the clear() is missing.
update_id_mapping_no_clear(mapping, employees) ==
    AssignEnumerated(mapping, employees)

update_id_mapping(mapping, employees) ==
    AssignEnumerated(EmptyMapping, employees)

\* id_mapping.get(k): the identifier, or None (NoneId) when k is no key.
mapping_get(mapping, k) ==
    IF k \in DOMAIN mapping THEN mapping[k] ELSE NoneId

(***************************************************************************)
(* What a step leaves for inspection: the operator's input, the gateway    *)
(* calls and the diagnostics.                                              *)
(***************************************************************************)
NoInput == [kind |-> "none", int |-> 0, text |-> <<>>]
IntInput(n) == [kind |-> "int", int |-> n, text |-> <<>>]
TextInput(t) == [kind |-> "text", int |-> 0, text |-> t]
KeyInput(k) == [kind |-> "key", int |-> 0, text |-> <<k>>]
\* The six tokens typed at the prompts of add_employee / confirm_modify_employee.
FormInput(form) == [kind |-> "form", int |-> 0, text |-> <<>>, form |-> form]

Call(op, emp_id, arg, text, fault, ret) ==
    [op |-> op, emp_id |-> emp_id, arg |-> arg, text |-> text, fault |-> fault, ret |-> ret]

\* What a gateway method prints when the driver raises AutoReconnect
\* (update_employee_by_id prints nothing).
FaultMessage(op) ==
    CASE op = "find_user_by_email" ->
           {"Lost connection to MongoDB while finding user by email."}
      [] op = "get_employee_list" ->
           {"Lost connection to MongoDB while retrieving employees list."}
      [] op = "insert_employee" ->
           {"Lost connection to MongoDB while inserting employee details."}
      [] op = "get_employee_by_id" ->
           {"Lost connection to MongoDB while getting employee details."}
      [] op = "remove_employee_by_id" ->
           {"Lost connection to MongoDB while deleting employee."}
      [] op = "search_employee" ->
           {"Lost connection to MongoDB while searching employee."}
      [] OTHER -> {}

\* The diagnostics the gateway printed during these calls.
GatewayPrinted(cs) ==
    UNION { IF cs[i].fault THEN FaultMessage(cs[i].op) ELSE {} : i \in 1..Len(cs) }

NoLogin == [tried |-> FALSE, email |-> <<>>, password |-> <<>>, user |-> PyNone]

(***************************************************************************)
(* Input validation (class Validator, get_valid_input) and the conversions *)
(* the workflows apply to the accepted tokens.                             *)
(***************************************************************************)
Letters == {"A", "B", "E", "M", "a", "b", "e", "m", "x"}
Digits == <<"0", "1", "2", "3", "4", "5", "6", "7", "8", "9">>

\* U+00B2 SUPERSCRIPT TWO, one character: a digit for str.isdigit() (Numeric_Type
\* Digit), not a decimal character, so no digit of an int() literal.
SuperscriptTwo == "sup2"

IsDecimalChar(c) == \E i \in 1..Len(Digits) : Digits[i] = c
IsDigitChar(c) == IsDecimalChar(c) \/ c = SuperscriptTwo
DigitValue(c) == (CHOOSE i \in 1..Len(Digits) : Digits[i] = c) - 1

\* str.isalpha(), str.isdigit(): every character of the kind, at least one character.
isalpha(t) == t # <<>> /\ \A i \in 1..Len(t) : t[i] \in Letters
isdigit(t) == t # <<>> /\ \A i \in 1..Len(t) : IsDigitChar(t[i])

RECURSIVE RemoveSpaces(_)
\* str.replace(" ", "")
RemoveSpaces(t) ==
    IF t = <<>> THEN <<>>
    ELSE (IF Head(t) = " " THEN <<>> ELSE <<Head(t)>>) \o RemoveSpaces(Tail(t))

RECURSIVE LStrip(_)
LStrip(t) == IF t # <<>> /\ Head(t) = " " THEN LStrip(Tail(t)) ELSE t

RECURSIVE RStrip(_)
RStrip(t) ==
    IF t # <<>> /\ t[Len(t)] = " " THEN RStrip(SubSeq(t, 1, Len(t) - 1)) ELSE t

\* str.strip()
strip(t) == RStrip(LStrip(t))

\* int(token) raises ValueError: the token (one the workflows hand to int(), of
\* isdigit characters or empty) is empty or has a character that is no decimal digit.
int_raises(t) == t = <<>> \/ \E i \in 1..Len(t) : ~IsDecimalChar(t[i])

RECURSIVE int(_)
\* int(token) of a token of decimal digits: the value, leading zeros dropped.
int(t) ==
    IF t = <<>> THEN 0 ELSE 10 * int(SubSeq(t, 1, Len(t) - 1)) + DigitValue(t[Len(t)])

\* The validators: True, False (after printing the diagnostic), or the
\* ValueError of int() leaving the validator.
\* Mutant of validate_name: the spaces are not removed before isalpha().
validate_name_keeps_spaces(name) ==
    IF isalpha(name) THEN PyTrue ELSE PyFalse

validate_name(name) ==
    IF isalpha(RemoveSpaces(name)) THEN PyTrue ELSE PyFalse

validate_designation(designation) ==
    IF isalpha(RemoveSpaces(designation)) THEN PyTrue ELSE PyFalse

validate_salary(salary) ==
    IF ~isdigit(salary) THEN PyFalse
    ELSE IF int_raises(salary) THEN Raise("ValueError")
    ELSE IF int(salary) >= MinSalary THEN PyTrue ELSE PyFalse

validate_age(age) ==
    IF ~isdigit(age) THEN PyFalse
    ELSE IF int_raises(age) THEN Raise("ValueError")
    ELSE IF MinAge <= int(age) /\ int(age) <= MaxAge THEN PyTrue ELSE PyFalse

validate_phone(phone) ==
    IF isdigit(phone) /\ Len(phone) = PhoneLength THEN PyTrue ELSE PyFalse

validate_address(address) ==
    IF strip(address) # <<>> THEN PyTrue ELSE PyFalse

\* get_valid_input(prompt, validator): the stripped token is returned when the
\* validator returns True (a rejected token is asked for again).
Accepted(outcome) == outcome = PyTrue

\* get_valid_input(prompt, validator, allow_blank=True): the blank token is
\* returned without a call of the validator.
BlankOrAccepted(token, outcome) == token = <<>> \/ outcome = PyTrue

\* The six tokens get_valid_input returns to add_employee.
FormAccepted(form) ==
    /\ Accepted(validate_name(strip(form.name)))
    /\ Accepted(validate_designation(strip(form.designation)))
    /\ Accepted(validate_salary(strip(form.salary)))
    /\ Accepted(validate_age(strip(form.age)))
    /\ Accepted(validate_phone(strip(form.phone)))
    /\ Accepted(validate_address(strip(form.address)))

\* A ValueError leaves add_employee: out of validate_salary or validate_age, or
\* out of int() of the phone token validate_phone accepted (before the address
\* prompt).
FormRaises(form) ==
    /\ Accepted(validate_name(strip(form.name)))
    /\ Accepted(validate_designation(strip(form.designation)))
    /\ \/ validate_salary(strip(form.salary)) = Raise("ValueError")
       \/ /\ Accepted(validate_salary(strip(form.salary)))
          /\ validate_age(strip(form.age)) = Raise("ValueError")
       \/ /\ Accepted(validate_salary(strip(form.salary)))
          /\ Accepted(validate_age(strip(form.age)))
          /\ Accepted(validate_phone(strip(form.phone)))
          /\ int_raises(strip(form.phone))

\* The form reaches Employee(...): accepted, and no conversion raises.
FormConverts(form) == FormAccepted(form) /\ ~FormRaises(form)

\* Employee(name, designation, float(salary), int(age), int(phone), address)
EmployeeOfForm(form) ==
    Employee(strip(form.name), strip(form.designation), int(strip(form.salary)),
             int(strip(form.age)), int(strip(form.phone)), strip(form.address))

\* The six tokens get_valid_input(..., allow_blank=True) returns to
\* confirm_modify_employee: each stripped, and blank or accepted by its validator.
ModifyFormAccepted(form) ==
    /\ BlankOrAccepted(strip(form.name), validate_name(strip(form.name)))
    /\ BlankOrAccepted(strip(form.designation), validate_designation(strip(form.designation)))
    /\ BlankOrAccepted(strip(form.salary), validate_salary(strip(form.salary)))
    /\ BlankOrAccepted(strip(form.age), validate_age(strip(form.age)))
    /\ BlankOrAccepted(strip(form.phone), validate_phone(strip(form.phone)))
    /\ BlankOrAccepted(strip(form.address), validate_address(strip(form.address)))

\* A ValueError leaves confirm_modify_employee: out of validate_salary or
\* validate_age at the prompts, or out of int(new_phone) in the constructor call
\* after the six prompts.
ModifyFormRaises(form) ==
    /\ BlankOrAccepted(strip(form.name), validate_name(strip(form.name)))
    /\ BlankOrAccepted(strip(form.designation), validate_designation(strip(form.designation)))
    /\ \/ /\ strip(form.salary) # <<>>
          /\ validate_salary(strip(form.salary)) = Raise("ValueError")
       \/ /\ BlankOrAccepted(strip(form.salary), validate_salary(strip(form.salary)))
          /\ strip(form.age) # <<>>
          /\ validate_age(strip(form.age)) = Raise("ValueError")
       \/ /\ ModifyFormAccepted(form)
          /\ strip(form.phone) # <<>>
          /\ int_raises(strip(form.phone))

\* Mutant of UpdatedEmployee: every field keeps the value of the fetched record.
UpdatedEmployee_keeps_all(form, employee) ==
    Employee(employee.name, employee.designation, employee.salary,
             employee.age, employee.phone, employee.address)

\* token or employee.field, then the constructor's float() / int().
UpdatedEmployee(form, employee) ==
    Employee(IF strip(form.name) = <<>> THEN employee.name ELSE strip(form.name),
             IF strip(form.designation) = <<>> THEN employee.designation
                                               ELSE strip(form.designation),
             IF strip(form.salary) = <<>> THEN employee.salary ELSE int(strip(form.salary)),
             IF strip(form.age) = <<>> THEN employee.age ELSE int(strip(form.age)),
             IF strip(form.phone) = <<>> THEN employee.phone ELSE int(strip(form.phone)),
             IF strip(form.address) = <<>> THEN employee.address ELSE strip(form.address))

Form(name, designation, salary, age, phone, address) ==
    [name |-> name, designation |-> designation, salary |-> salary,
     age |-> age, phone |-> phone, address |-> address]

\* Forms the operator fills in at add_employee (tokens as typed), the second
\* with a phone token that starts with 0.
SampleForms ==
    { Form(<<"A", "b">>, <<"E", "m">>, <<"7", "5", "0">>, <<"3", "0">>,
           <<"1", "2", "3", "4", "5", "6", "7", "8", "9", "0">>, <<"1", " ", "B">>),
      Form(<<" ", "B", "e">>, <<"M", "a">>, <<"5", "0", "0">>, <<"1", "8">>,
           <<"0", "1", "2", "3", "4", "5", "6", "7", "8", "9">>, <<"b", "e">>) }

\* The records add_employee can have written.
SampleEmployees == { EmployeeOfForm(form) : form \in { f \in SampleForms : FormConverts(f) } }

\* Forms of confirm_modify_employee: all blank, a new name and salary with the
\* other prompts left blank, and a salary token of one superscript digit.
SampleModifyForms ==
    { Form(<<>>, <<>>, <<>>, <<>>, <<>>, <<>>),
      Form(<<"x">>, <<" ">>, <<"5", "0", "0">>, <<>>, <<>>, <<>>),
      Form(<<>>, <<>>, <<SuperscriptTwo>>, <<>>, <<>>, <<>>) }

(***************************************************************************)
(* Sample data the inputs are drawn from.                                  *)
(***************************************************************************)
SampleTerms == { <<"e", "m">>, <<"B">>, <<"x">>, <<"1", " ", "b">> }
SampleEmails == { <<"a">>, <<"z">> }
SamplePasswords == { <<"p">>, <<"q">> }
IdSpace == 1..MaxIds

\* The lists update_id_mapping is handed: Employees of the collection, any order.
EmployeeLists(coll) ==
    UNION { [1..n -> { EmployeeFromDoc(coll[i]) : i \in 1..Len(coll) }] : n \in 0..MaxStaff }


(***************************************************************************)
(* The controller's call stack.  A frame is an activation of a method:     *)
(* its name, where it stands (a prompt it waits at, or the call it waits   *)
(* for), and the locals it still reads.                                    *)
(***************************************************************************)
Frame(fn, pc) ==
    [fn |-> fn, pc |-> pc, employee_id |-> 0, emp_id |-> NoneId, employee |-> <<>>]

Top(s) == s[Len(s)]
Pop(s) == SubSeq(s, 1, Len(s) - 1)
SetTop(s, f) == [s EXCEPT ![Len(s)] = f]

\* The top frame calls a method: it waits at the call site, the callee is pushed.
CallFrom(s, site, callee) == Append(SetTop(s, Frame(Top(s).fn, site)), callee)

\* What a frame does when the call it waits for returns: "return" itself, or
\* the prompt it goes to.
AfterReturn(f) ==
    CASE f.fn = "login_menu" /\ f.pc = "call_login" -> "return"
      [] f.fn = "login" /\ f.pc = "call_main_menu" -> "return"
      [] f.fn = "login" /\ f.pc = "call_login_menu" -> "return"
      [] f.fn = "main_menu" /\ f.pc = "call_edit_menu" -> "choice"
      [] f.fn = "main_menu" /\ f.pc = "call_search_record" -> "choice"
      [] f.fn = "main_menu" /\ f.pc = "call_login_menu" -> "return"
      [] f.fn = "edit_menu" /\ f.pc = "call_add_employee" -> "choice"
      [] f.fn = "edit_menu" /\ f.pc = "call_modify_employee" -> "choice"
      [] f.fn = "edit_menu" /\ f.pc = "call_delete_employee" -> "choice"
      [] f.fn = "edit_menu" /\ f.pc = "call_main_menu" -> "return"
      [] f.fn = "add_employee" /\ f.pc = "call_edit_menu" -> "return"
      [] f.fn = "modify_employee" /\ f.pc = "call_confirm" -> "another"
      [] f.fn = "modify_employee" /\ f.pc = "call_edit_menu" -> "return"
      [] f.fn = "confirm_modify_employee" /\ f.pc = "call_modify_employee" -> "return"
      [] f.fn = "delete_employee" /\ f.pc = "call_confirm" -> "another"
      [] f.fn = "delete_employee" /\ f.pc = "call_edit_menu" -> "return"
      [] f.fn = "confirm_delete_employee" /\ f.pc = "call_delete_employee" -> "return"
      [] f.fn = "search_record" /\ f.pc = "call_main_menu" -> "return"

RECURSIVE Resume(_)
\* The stack once the callee of its top frame has returned: the caller goes on
\* to its next prompt, or returns in turn; run() returning ends the process.
Resume(s) ==
    IF s = <<>> THEN <<>>
    ELSE IF AfterReturn(Top(s)) = "return" THEN Resume(Pop(s))
         ELSE SetTop(s, Frame(Top(s).fn, AfterReturn(Top(s))))

\* What part of a handler yields: the stack, the diagnostics, the gateway calls
\* and the table on screen.
Outcome(s, o, cs, sh) ==
    [stack |-> s, out |-> o \cup GatewayPrinted(cs), calls |-> cs, shown |-> sh]

ListCall(fault, ret) == Call("get_employee_list", NoneId, <<>>, <<>>, fault, ret)

\* The head of the loop of modify_employee / delete_employee, s holding the
\* workflow's frame on top: the emptiness check, then display_employees_list
\* and the ordinal prompt.
WorkflowHead(s, coll, f1, f2) ==
    LET fn == Top(s).fn
        checked == get_employee_list(coll, f1)
        all_employees == get_employee_list(coll, f2)
    IN IF ~Truthy(checked)
       THEN Outcome(Resume(Pop(s)),
                    {IF fn = "modify_employee" THEN "No employees found to modify."
                                               ELSE "No employees found to delete."},
                    <<ListCall(f1, checked)>>, <<>>)
       ELSE Outcome(SetTop(s, Frame(fn, "ordinal")),
                    IF all_employees = PyList(<<>>) THEN {"No employees found."} ELSE {},
                    <<ListCall(f1, checked), ListCall(f2, all_employees)>>,
                    IF Truthy(all_employees) THEN all_employees.val ELSE <<>>)

\* main_menu's first lines: the fetched list, when not empty, is enumerated
\* into id_mapping (no clear).
main_menu_entry_mapping(mapping, all_employees) ==
    IF Truthy(all_employees) THEN AssignEnumerated(mapping, all_employees.val) ELSE mapping

\* Mutant of login_accepts: the password comparison is missing.
login_accepts_any_password(user, password) ==
    Truthy(user)

\* login's test: if user and user["password"] == password
login_accepts(user, password) ==
    Truthy(user) /\ user.val[1].password = password

(***************************************************************************)
(* SpecDB: the gateway driven call by call, every argument and every fault *)
(* pattern.                                                                *)
(***************************************************************************)
ctlVars == <<stack, inp, out, shown, lastLogin, unrefreshed>>

InitDB ==
    /\ staff = <<>>
    /\ nextId = 1
    /\ id_mapping = EmptyMapping
    /\ stack = <<>>
    /\ inp = NoInput
    /\ out = {}
    /\ calls = <<>>
    /\ shown = <<>>
    /\ lastLogin = NoLogin
    /\ unrefreshed = {}

DbFindUser ==
    \E email \in SampleEmails, fault \in BOOLEAN :
        /\ calls' = <<Call("find_user_by_email", NoneId, <<>>, email, fault,
                           find_user_by_email(email, fault))>>
        /\ UNCHANGED <<staff, nextId, id_mapping, ctlVars>>

DbList ==
    \E fault \in BOOLEAN :
        /\ calls' = <<Call("get_employee_list", NoneId, <<>>, <<>>, fault,
                           get_employee_list(staff, fault))>>
        /\ UNCHANGED <<staff, nextId, id_mapping, ctlVars>>

DbInsert ==
    \E employee \in SampleEmployees, fault \in BOOLEAN :
        /\ Len(staff) < MaxStaff
        /\ nextId <= MaxIds
        /\ LET r == insert_employee(staff, nextId, employee, fault)
           IN /\ staff' = r.staff
              /\ nextId' = r.nextId
              /\ calls' = <<Call("insert_employee", NoneId, <<employee>>, <<>>, fault, r.ret)>>
        /\ UNCHANGED <<id_mapping, ctlVars>>

DbGet ==
    \E emp_id \in IdSpace, fault \in BOOLEAN :
        /\ calls' = <<Call("get_employee_by_id", emp_id, <<>>, <<>>, fault,
                           get_employee_by_id(staff, emp_id, fault))>>
        /\ UNCHANGED <<staff, nextId, id_mapping, ctlVars>>

DbUpdate ==
    \E emp_id \in IdSpace, employee \in SampleEmployees, fault \in BOOLEAN :
        LET r == update_employee_by_id(staff, emp_id, employee, fault)
        IN /\ staff' = r.staff
           /\ calls' = <<Call("update_employee_by_id", emp_id, <<employee>>, <<>>, fault, r.ret)>>
           /\ UNCHANGED <<nextId, id_mapping, ctlVars>>

DbRemove ==
    \E emp_id \in IdSpace, fault \in BOOLEAN :
        LET r == remove_employee_by_id(staff, emp_id, fault)
        IN /\ staff' = r.staff
           /\ calls' = <<Call("remove_employee_by_id", emp_id, <<>>, <<>>, fault, r.ret)>>
           /\ UNCHANGED <<nextId, id_mapping, ctlVars>>

DbSearch ==
    \E term \in SampleTerms, fault \in BOOLEAN :
        /\ calls' = <<Call("search_employee", NoneId, <<>>, term, fault,
                           search_employee(staff, term, fault))>>
        /\ UNCHANGED <<staff, nextId, id_mapping, ctlVars>>

NextDB ==
    \/ DbFindUser
    \/ DbList
    \/ DbInsert
    \/ DbGet
    \/ DbUpdate
    \/ DbRemove
    \/ DbSearch

SpecDB == InitDB /\ [][NextDB]_vars

(***************************************************************************)
(* Spec: the session controller, one action per prompt the operator        *)
(* answers.  An action runs the handler from the answer to the next        *)
(* prompt, every gateway call on the way taking its own fault input.       *)
(***************************************************************************)
At(fn, pc) == stack # <<>> /\ Top(stack).fn = fn /\ Top(stack).pc = pc
CanCall == Len(stack) < MaxDepth

MenuInputs == { IntInput(n) : n \in 1..5 } \cup { TextInput(<<"x">>) }
OrdinalInputs == { IntInput(k) : k \in 0..(MaxStaff + 1) } \cup { TextInput(<<"x">>) }
Keys == {"enter", "esc"}
Answers == {"y", "n", "x"}

InvalidChoice(choice) ==
    IF choice.kind = "int" THEN "Invalid choice! Please try again."
                           ELSE "Please enter a valid numeric choice."

\* Documents the collection may hold when the process starts.
StoredDoc(employee, emp_id) == [EmployeeFromDoc(employee) EXCEPT !._id = emp_id]

InitStores ==
    { <<>> } \cup
    { <<StoredDoc(e, 1)>> : e \in SampleEmployees } \cup
    { <<StoredDoc(e1, 1), StoredDoc(e2, 2)>> : e1 \in SampleEmployees, e2 \in SampleEmployees }

Init ==
    /\ staff \in InitStores
    /\ nextId = Len(staff) + 1
    /\ id_mapping = EmptyMapping
    /\ stack = <<Frame("login_menu", "choice")>>
    /\ inp = NoInput
    /\ out = {}
    /\ calls = <<>>
    /\ shown = <<>>
    /\ lastLogin = NoLogin
    /\ unrefreshed = {}

\* Mutant of LoginMenuChoice: an unlisted or non-numeric choice ends the
\* process as choice 2 does.
LoginMenuChoice_invalid_exits ==
    /\ At("login_menu", "choice")
    /\ \E choice \in MenuInputs :
        /\ inp' = choice
        /\ IF choice = IntInput(1)
           THEN /\ CanCall
                /\ stack' = CallFrom(stack, "call_login", Frame("login", "creds"))
                /\ out' = {}
           ELSE /\ stack' = <<>>
                /\ out' = IF choice = IntInput(2) THEN {} ELSE {InvalidChoice(choice)}
    /\ calls' = <<>>
    /\ shown' = <<>>
    /\ UNCHANGED <<staff, nextId, id_mapping, lastLogin, unrefreshed>>

\* login_menu: 1) Login, 2) Exit.
LoginMenuChoice ==
    /\ At("login_menu", "choice")
    /\ \E choice \in MenuInputs :
        /\ inp' = choice
        /\ IF choice = IntInput(1)
           THEN /\ CanCall
                /\ stack' = CallFrom(stack, "call_login", Frame("login", "creds"))
                /\ out' = {}
           ELSE IF choice = IntInput(2)
                THEN /\ stack' = <<>>
                     /\ out' = {}
                ELSE /\ stack' = stack
                     /\ out' = {InvalidChoice(choice)}
    /\ calls' = <<>>
    /\ shown' = <<>>
    /\ UNCHANGED <<staff, nextId, id_mapping, lastLogin, unrefreshed>>

\* login: email and password entered, the credential lookup, then main_menu
\* (whose first lines fetch the list and fill id_mapping) or the retry prompt.
LoginSubmit ==
    /\ At("login", "creds")
    /\ \E email \in SampleEmails, password \in SamplePasswords,
          fUser \in BOOLEAN, fList \in BOOLEAN :
        LET user == find_user_by_email(email, fUser)
            userCall == Call("find_user_by_email", NoneId, <<>>, email, fUser, user)
            all_employees == get_employee_list(staff, fList)
        IN /\ inp' = TextInput(email)
           /\ lastLogin' = [tried |-> TRUE, email |-> email, password |-> password, user |-> user]
           /\ IF login_accepts(user, password)
              THEN /\ CanCall
                   /\ stack' = CallFrom(stack, "call_main_menu", Frame("main_menu", "choice"))
                   /\ id_mapping' = main_menu_entry_mapping(id_mapping, all_employees)
                   /\ unrefreshed' = IF Truthy(all_employees) THEN {} ELSE unrefreshed
                   /\ calls' = <<userCall, ListCall(fList, all_employees)>>
                   /\ out' = {"Login successful!"} \cup GatewayPrinted(calls')
              ELSE /\ stack' = SetTop(stack, Frame("login", "retry"))
                   /\ calls' = <<userCall>>
                   /\ out' = GatewayPrinted(calls') \cup
                             (IF Truthy(user)
                              THEN {"Invalid password! Please try again."}
                              ELSE IF user = PyNone
                                   THEN {"No user found with the provided email."}
                                   ELSE {})
                   /\ UNCHANGED <<id_mapping, unrefreshed>>
    /\ shown' = <<>>
    /\ UNCHANGED <<staff, nextId>>

\* login: 'Enter' to try again, 'esc' to call login_menu.
LoginRetry ==
    /\ At("login", "retry")
    /\ \E key \in Keys :
        /\ inp' = KeyInput(key)
        /\ IF key = "enter"
           THEN stack' = SetTop(stack, Frame("login", "creds"))
           ELSE /\ CanCall
                /\ stack' = CallFrom(stack, "call_login_menu", Frame("login_menu", "choice"))
    /\ out' = {}
    /\ calls' = <<>>
    /\ shown' = <<>>
    /\ UNCHANGED <<staff, nextId, id_mapping, lastLogin, unrefreshed>>

\* main_menu: 1) View, 2) Edit, 3) Search, 4) Logout.
MainMenuChoice ==
    /\ At("main_menu", "choice")
    /\ \E choice \in MenuInputs, fList \in BOOLEAN :
        LET all_employees == get_employee_list(staff, fList)
        IN /\ inp' = choice
           /\ IF choice = IntInput(1)
              THEN /\ stack' = stack
                   /\ calls' = <<ListCall(fList, all_employees)>>
                   /\ shown' = IF Truthy(all_employees) THEN all_employees.val ELSE <<>>
                   /\ out' = GatewayPrinted(calls') \cup
                             (IF all_employees = PyList(<<>>) THEN {"No employees found."}
                                                             ELSE {})
                   /\ UNCHANGED lastLogin
              ELSE /\ calls' = <<>>
                   /\ shown' = <<>>
                   /\ IF choice = IntInput(2)
                      THEN /\ CanCall
                           /\ stack' = CallFrom(stack, "call_edit_menu", Frame("edit_menu", "choice"))
                           /\ out' = {}
                           /\ UNCHANGED lastLogin
                      ELSE IF choice = IntInput(3)
                      THEN /\ CanCall
                           /\ stack' = CallFrom(stack, "call_search_record",
                                                Frame("search_record", "term"))
                           /\ out' = {}
                           /\ UNCHANGED lastLogin
                      ELSE IF choice = IntInput(4)
                      THEN /\ CanCall
                           /\ stack' = CallFrom(stack, "call_login_menu",
                                                Frame("login_menu", "choice"))
                           /\ out' = {}
                           /\ lastLogin' = NoLogin
                      ELSE /\ stack' = stack
                           /\ out' = {InvalidChoice(choice)}
                           /\ UNCHANGED lastLogin
    /\ UNCHANGED <<staff, nextId, id_mapping, unrefreshed>>

\* edit_menu: 1) Add, 2) Modify, 3) Delete, 4) Main Menu.
EditMenuChoice ==
    /\ At("edit_menu", "choice")
    /\ \E choice \in MenuInputs, f1 \in BOOLEAN, f2 \in BOOLEAN :
        /\ inp' = choice
        /\ IF choice = IntInput(1)
           THEN /\ CanCall
                /\ stack' = CallFrom(stack, "call_add_employee", Frame("add_employee", "fields"))
                /\ out' = {}
                /\ calls' = <<>>
                /\ shown' = <<>>
                /\ UNCHANGED <<id_mapping, unrefreshed>>
           ELSE IF choice \in {IntInput(2), IntInput(3)}
           THEN LET site == IF choice = IntInput(2) THEN "call_modify_employee"
                                                    ELSE "call_delete_employee"
                    fn == IF choice = IntInput(2) THEN "modify_employee" ELSE "delete_employee"
                    head == WorkflowHead(CallFrom(stack, site, Frame(fn, "head")), staff, f1, f2)
                IN /\ CanCall
                   /\ stack' = head.stack
                   /\ out' = head.out
                   /\ calls' = head.calls
                   /\ shown' = head.shown
                   /\ UNCHANGED <<id_mapping, unrefreshed>>
           ELSE IF choice = IntInput(4)
           THEN LET all_employees == get_employee_list(staff, f1)
                IN /\ CanCall
                   /\ stack' = CallFrom(stack, "call_main_menu", Frame("main_menu", "choice"))
                   /\ id_mapping' = main_menu_entry_mapping(id_mapping, all_employees)
                   /\ unrefreshed' = IF Truthy(all_employees) THEN {} ELSE unrefreshed
                   /\ calls' = <<ListCall(f1, all_employees)>>
                   /\ out' = GatewayPrinted(calls')
                   /\ shown' = <<>>
           ELSE /\ stack' = stack
                /\ out' = {InvalidChoice(choice)}
                /\ calls' = <<>>
                /\ shown' = <<>>
                /\ UNCHANGED <<id_mapping, unrefreshed>>
    /\ UNCHANGED <<staff, nextId, lastLogin>>

\* add_employee: the six prompts, each repeated until its validator accepts.
AddFields ==
    /\ At("add_employee", "fields")
    /\ \E form \in SampleForms :
        /\ inp' = FormInput(form)
        /\ IF FormRaises(form)
           THEN \* caught by the except ValueError of edit_menu, the caller
                /\ stack' = SetTop(Pop(stack), Frame("edit_menu", "choice"))
                /\ out' = {"Please enter a valid numeric choice."}
           ELSE /\ FormAccepted(form)
                /\ stack' = SetTop(stack, [Frame("add_employee", "confirm")
                                             EXCEPT !.employee = <<EmployeeOfForm(form)>>])
                /\ out' = {}
    /\ calls' = <<>>
    /\ shown' = <<>>
    /\ UNCHANGED <<staff, nextId, id_mapping, lastLogin, unrefreshed>>

\* add_employee: 'Enter' inserts, fetches the list and rebuilds id_mapping; 'esc' cancels.
AddConfirm ==
    /\ At("add_employee", "confirm")
    /\ \E key \in Keys, fInsert \in BOOLEAN, fList \in BOOLEAN :
        LET employee == Top(stack).employee[1]
            r == insert_employee(staff, nextId, employee, fInsert)
            insertCall == Call("insert_employee", NoneId, <<employee>>, <<>>, fInsert, r.ret)
            all_employees == get_employee_list(r.staff, fList)
        IN /\ inp' = KeyInput(key)
           /\ IF key = "esc"
              THEN /\ out' = {"Operation Canceled."}
                   /\ calls' = <<>>
                   /\ UNCHANGED <<staff, nextId, id_mapping, unrefreshed>>
              ELSE /\ fInsert \/ (Len(staff) < MaxStaff /\ nextId <= MaxIds)
                   /\ staff' = r.staff
                   /\ nextId' = r.nextId
                   /\ IF Truthy(r.ret)
                      THEN /\ id_mapping' = IF Truthy(all_employees)
                                            THEN update_id_mapping(id_mapping, all_employees.val)
                                            ELSE id_mapping
                           /\ unrefreshed' = IF Truthy(all_employees)
                                             THEN {}
                                             ELSE unrefreshed \cup {"insert"}
                           /\ calls' = <<insertCall, ListCall(fList, all_employees)>>
                           /\ out' = {"Employee details added successfully!"}
                                     \cup GatewayPrinted(calls')
                      ELSE /\ calls' = <<insertCall>>
                           /\ out' = GatewayPrinted(calls')
                           /\ UNCHANGED <<id_mapping, unrefreshed>>
    /\ stack' = SetTop(stack, Frame("add_employee", "more"))
    /\ shown' = <<>>
    /\ UNCHANGED lastLogin

\* add_employee: "Do you want to add more employees? (Y/N)".
AddMore ==
    /\ At("add_employee", "more")
    /\ \E ans \in Answers :
        /\ inp' = TextInput(<<ans>>)
        /\ IF ans = "n"
           THEN /\ CanCall
                /\ stack' = CallFrom(stack, "call_edit_menu", Frame("edit_menu", "choice"))
                /\ out' = {}
           ELSE IF ans = "y"
                THEN /\ stack' = SetTop(stack, Frame("add_employee", "fields"))
                     /\ out' = {}
                ELSE /\ stack' = stack
                     /\ out' = {"Invalid input. Please enter 'Y' for Yes or 'N' for No."}
    /\ calls' = <<>>
    /\ shown' = <<>>
    /\ UNCHANGED <<staff, nextId, id_mapping, lastLogin, unrefreshed>>

\* modify_employee / delete_employee: "Enter Employee ID", the lookup in
\* id_mapping, get_employee_by_id and the call of the confirm method.
OrdinalEntered(fn, confirm, notFound) ==
    /\ \E entry \in OrdinalInputs, f1 \in BOOLEAN, f2 \in BOOLEAN :
        /\ inp' = entry
        /\ IF entry.kind # "int"
           THEN LET head == WorkflowHead(stack, staff, f1, f2)
                IN /\ stack' = head.stack
                   /\ out' = {"Please enter a valid numeric ID."} \cup head.out
                   /\ calls' = head.calls
                   /\ shown' = head.shown
           ELSE LET emp_id == mapping_get(id_mapping, entry.int)
                    employee == get_employee_by_id(staff, emp_id, f1)
                    getCall == Call("get_employee_by_id", emp_id, <<>>, <<>>, f1, employee)
                IN IF emp_id # NoneId
                   THEN IF ~Truthy(employee)
                        THEN /\ stack' = Resume(Pop(stack))
                             /\ calls' = <<getCall>>
                             /\ out' = {"Lost connection to MongoDB while getting employee details."}
                                       \cup GatewayPrinted(calls')
                             /\ shown' = <<>>
                        ELSE /\ CanCall
                             /\ stack' = CallFrom(stack, "call_confirm",
                                             [Frame(confirm, "key")
                                                EXCEPT !.employee_id = entry.int,
                                                       !.emp_id = emp_id,
                                                       !.employee = employee.val])
                             /\ out' = {}
                             /\ calls' = <<getCall>>
                             /\ shown' = <<>>
                   ELSE /\ stack' = SetTop(stack, Frame(fn, "another"))
                        /\ out' = {notFound}
                        /\ calls' = <<>>
                        /\ shown' = <<>>
    /\ UNCHANGED <<staff, nextId, id_mapping, lastLogin, unrefreshed>>

ModifyOrdinal ==
    /\ At("modify_employee", "ordinal")
    /\ OrdinalEntered("modify_employee", "confirm_modify_employee", "Employee not found with ID")

DeleteOrdinal ==
    /\ At("delete_employee", "ordinal")
    /\ OrdinalEntered("delete_employee", "confirm_delete_employee", "Employee with ID not found.")

\* modify_employee / delete_employee: "Do you want to ... another employee? (Y/N)".
AnotherAnswered(fn) ==
    /\ \E ans \in Answers, f1 \in BOOLEAN, f2 \in BOOLEAN :
        /\ inp' = TextInput(<<ans>>)
        /\ IF ans = "n"
           THEN /\ CanCall
                /\ stack' = CallFrom(stack, "call_edit_menu", Frame("edit_menu", "choice"))
                /\ out' = {}
                /\ calls' = <<>>
                /\ shown' = <<>>
           ELSE IF ans = "y"
                THEN LET head == WorkflowHead(stack, staff, f1, f2)
                     IN /\ stack' = head.stack
                        /\ out' = head.out
                        /\ calls' = head.calls
                        /\ shown' = head.shown
                ELSE /\ stack' = stack
                     /\ out' = {"Invalid input. Please enter 'Y' for Yes or 'N' for No."}
                     /\ calls' = <<>>
                     /\ shown' = <<>>
    /\ UNCHANGED <<staff, nextId, id_mapping, lastLogin, unrefreshed>>

ModifyAnother ==
    /\ At("modify_employee", "another")
    /\ AnotherAnswered("modify_employee")

DeleteAnother ==
    /\ At("delete_employee", "another")
    /\ AnotherAnswered("delete_employee")

\* Mutant of CancelConfirm: the cancel calls edit_menu.
CancelConfirm_to_edit_menu(fn, message, f1, f2) ==
    /\ CanCall
    /\ stack' = CallFrom(stack, "call_edit_menu", Frame("edit_menu", "choice"))
    /\ out' = {message}
    /\ calls' = <<>>
    /\ shown' = <<>>

\* The 'esc' of confirm_modify_employee / confirm_delete_employee: the
\* workflow method is called again from the confirm method.
CancelConfirm(fn, message, f1, f2) ==
    LET site == IF fn = "modify_employee" THEN "call_modify_employee"
                                          ELSE "call_delete_employee"
        head == WorkflowHead(CallFrom(stack, site, Frame(fn, "head")), staff, f1, f2)
    IN /\ CanCall
       /\ stack' = head.stack
       /\ out' = {message} \cup head.out
       /\ calls' = head.calls
       /\ shown' = head.shown

\* confirm_modify_employee: 'Enter' to proceed with modifications, 'esc' to cancel.
ConfirmModifyKey ==
    /\ At("confirm_modify_employee", "key")
    /\ \E key \in Keys, f1 \in BOOLEAN, f2 \in BOOLEAN :
        /\ inp' = KeyInput(key)
        /\ IF key = "esc"
           THEN CancelConfirm("modify_employee", "Operation Canceled.", f1, f2)
           ELSE /\ stack' = SetTop(stack, [Top(stack) EXCEPT !.pc = "fields"])
                /\ out' = {}
                /\ calls' = <<>>
                /\ shown' = <<>>
    /\ UNCHANGED <<staff, nextId, id_mapping, lastLogin, unrefreshed>>

\* confirm_modify_employee: the six allow-blank prompts, the update, and the
\* second update call that decides between the two failure messages.
ConfirmModifyFields ==
    /\ At("confirm_modify_employee", "fields")
    /\ \E form \in SampleModifyForms, f1 \in BOOLEAN, f2 \in BOOLEAN :
        /\ inp' = FormInput(form)
        /\ IF ModifyFormRaises(form)
           THEN \* caught by the except ValueError of modify_employee, the caller,
                \* which goes round its loop
                LET head == WorkflowHead(Pop(stack), staff, f1, f2)
                IN /\ stack' = head.stack
                   /\ out' = {"Please enter a valid numeric ID."} \cup head.out
                   /\ calls' = head.calls
                   /\ shown' = head.shown
                   /\ staff' = staff
           ELSE LET emp_id == Top(stack).emp_id
                    updated_employee == UpdatedEmployee(form, Top(stack).employee[1])
                    r1 == update_employee_by_id(staff, emp_id, updated_employee, f1)
                    r2 == update_employee_by_id(r1.staff, emp_id, updated_employee, f2)
                    call1 == Call("update_employee_by_id", emp_id, <<updated_employee>>,
                                  <<>>, f1, r1.ret)
                    call2 == Call("update_employee_by_id", emp_id, <<updated_employee>>,
                                  <<>>, f2, r2.ret)
                IN /\ ModifyFormAccepted(form)
                   /\ stack' = Resume(Pop(stack))
                   /\ shown' = <<>>
                   /\ IF Truthy(r1.ret)
                      THEN /\ staff' = r1.staff
                           /\ out' = {"Employee updated successfully!"}
                           /\ calls' = <<call1>>
                      ELSE /\ staff' = r2.staff
                           /\ out' = IF r2.ret = PyNone
                                     THEN {"No changes found."}
                                     ELSE {"Lost connection to MongoDB while updating employee."}
                           /\ calls' = <<call1, call2>>
    /\ UNCHANGED <<nextId, id_mapping, lastLogin, unrefreshed>>

\* confirm_delete_employee: 'Enter' to confirm deletion, 'esc' to cancel.
ConfirmDeleteKey ==
    /\ At("confirm_delete_employee", "key")
    /\ \E key \in Keys, f1 \in BOOLEAN, f2 \in BOOLEAN :
        LET emp_id == Top(stack).emp_id
            r == remove_employee_by_id(staff, emp_id, f1)
        IN /\ inp' = KeyInput(key)
           /\ IF key = "esc"
              THEN /\ CancelConfirm("delete_employee", "Operation canceled.", f1, f2)
                   /\ UNCHANGED <<staff, unrefreshed>>
              ELSE /\ staff' = r.staff
                   /\ unrefreshed' = IF Truthy(r.ret) THEN unrefreshed \cup {"delete"}
                                                      ELSE unrefreshed
                   /\ calls' = <<Call("remove_employee_by_id", emp_id, <<>>, <<>>, f1, r.ret)>>
                   /\ out' = GatewayPrinted(calls') \cup
                             (IF Truthy(r.ret) THEN {"Employee deleted successfully!"} ELSE {})
                   /\ stack' = Resume(Pop(stack))
                   /\ shown' = <<>>
    /\ UNCHANGED <<nextId, id_mapping, lastLogin>>

\* search_record: the term prompt and the search.
SearchTerm ==
    /\ At("search_record", "term")
    /\ \E search_term \in SampleTerms \cup {<<>>}, fault \in BOOLEAN :
        LET search_results == search_employee(staff, search_term, fault)
        IN /\ inp' = TextInput(search_term)
           /\ IF Len(search_term) > 0
              THEN /\ stack' = SetTop(stack, Frame("search_record", "key"))
                   /\ calls' = <<Call("search_employee", NoneId, <<>>, search_term,
                                      fault, search_results)>>
                   /\ out' = GatewayPrinted(calls') \cup
                             (IF Truthy(search_results) THEN {} ELSE {"No records found."})
              ELSE /\ stack' = stack
                   /\ out' = {"Search term cannot be empty."}
                   /\ calls' = <<>>
    /\ shown' = <<>>
    /\ UNCHANGED <<staff, nextId, id_mapping, lastLogin, unrefreshed>>

\* search_record: 'enter' to search again, 'esc' to call main_menu.
SearchKey ==
    /\ At("search_record", "key")
    /\ \E key \in Keys, fList \in BOOLEAN :
        LET all_employees == get_employee_list(staff, fList)
        IN /\ inp' = KeyInput(key)
           /\ IF key = "esc"
              THEN /\ CanCall
                   /\ stack' = CallFrom(stack, "call_main_menu", Frame("main_menu", "choice"))
                   /\ id_mapping' = main_menu_entry_mapping(id_mapping, all_employees)
                   /\ unrefreshed' = IF Truthy(all_employees) THEN {} ELSE unrefreshed
                   /\ calls' = <<ListCall(fList, all_employees)>>
              ELSE /\ stack' = SetTop(stack, Frame("search_record", "term"))
                   /\ calls' = <<>>
                   /\ UNCHANGED <<id_mapping, unrefreshed>>
    /\ out' = GatewayPrinted(calls')
    /\ shown' = <<>>
    /\ UNCHANGED <<staff, nextId, lastLogin>>

Next ==
    \/ LoginMenuChoice
    \/ LoginSubmit
    \/ LoginRetry
    \/ MainMenuChoice
    \/ EditMenuChoice
    \/ AddFields
    \/ AddConfirm
    \/ AddMore
    \/ ModifyOrdinal
    \/ ModifyAnother
    \/ ConfirmModifyKey
    \/ ConfirmModifyFields
    \/ DeleteOrdinal
    \/ DeleteAnother
    \/ ConfirmDeleteKey
    \/ SearchTerm
    \/ SearchKey

Spec == Init /\ [][Next]_vars

(***************************************************************************)
(* SpecMap: the two assignments to id_mapping, update_id_mapping and the   *)
(* enumeration at the top of main_menu, applied in any order to lists of   *)
(* Employees of a stored collection.                                       *)
(***************************************************************************)
InitMap ==
    /\ staff \in InitStores
    /\ nextId = Len(staff) + 1
    /\ id_mapping = EmptyMapping
    /\ stack = <<>>
    /\ inp = NoInput
    /\ out = {}
    /\ calls = <<>>
    /\ shown = <<>>
    /\ lastLogin = NoLogin
    /\ unrefreshed = {}

MapRebuild ==
    \E employees \in EmployeeLists(staff) :
        /\ id_mapping' = update_id_mapping(id_mapping, employees)
        /\ calls' = <<Call("update_id_mapping", NoneId, employees, <<>>, FALSE, PyNone)>>
        /\ UNCHANGED <<staff, nextId, ctlVars>>

MapEnumerate ==
    \E employees \in EmployeeLists(staff) :
        /\ id_mapping' = main_menu_entry_mapping(id_mapping, PyList(employees))
        /\ calls' = <<Call("main_menu", NoneId, employees, <<>>, FALSE, PyNone)>>
        /\ UNCHANGED <<staff, nextId, ctlVars>>

NextMap ==
    \/ MapRebuild
    \/ MapEnumerate

SpecMap == InitMap /\ [][NextMap]_vars

(***************************************************************************)
(* SpecInput: the validators applied to one token.  The token is drawn at  *)
(* the start; each action is one call of a validator with it.              *)
(***************************************************************************)
\* Decimal digits, a letter, a space, a sign, a decimal point and a superscript digit.
TokenChars == {"0", "1", "4", "5", "7", "8", "9", "x", " ", "-", ".", SuperscriptTwo}

\* The tokens of at most n characters.
TokensUpTo(n) == UNION { [1..k -> TokenChars] : k \in 0..n }

Tokens == TokensUpTo(MaxTokenLen)

\* A token continued with the character "1" up to n characters.
PaddedTo(t, n) == t \o [i \in 1..(n - Len(t)) |-> "1"]

\* Tokens one character shorter than validate_phone asks for, of that length and
\* one character longer.
PhoneTokens ==
    { PaddedTo(t, n) : t \in TokensUpTo(MaxTokenLen - 1),
                       n \in (PhoneLength - 1)..(PhoneLength + 1) }

\* What a validator prints when it returns False.
ValidatorMessage(validator) ==
    CASE validator = "validate_name" -> "Name must contain only alphabetic characters."
      [] validator = "validate_designation" ->
           "Designation must contain only alphabetic characters."
      [] validator = "validate_salary" ->
           "Salary must be at least 500 and in a valid numeric format."
      [] validator = "validate_age" ->
           "Age must be a positive number between 18 and 99 in a valid numeric format."
      [] validator = "validate_phone" ->
           "Phone number must be a 10-digit number in a valid numeric format."
      [] validator = "validate_address" -> "Address cannot be empty."

InitInput ==
    /\ inp \in { TextInput(t) : t \in Tokens \cup PhoneTokens }
    /\ staff = <<>>
    /\ nextId = 1
    /\ id_mapping = EmptyMapping
    /\ stack = <<>>
    /\ out = {}
    /\ calls = <<>>
    /\ shown = <<>>
    /\ lastLogin = NoLogin
    /\ unrefreshed = {}

\* One call validator(token) with its outcome.
Validated(validator, outcome) ==
    /\ calls = <<>>
    /\ calls' = <<Call(validator, NoneId, <<>>, inp.text, FALSE, outcome)>>
    /\ out' = IF outcome = PyFalse THEN {ValidatorMessage(validator)} ELSE {}
    /\ UNCHANGED <<staff, nextId, id_mapping, stack, inp, shown, lastLogin, unrefreshed>>

ValidateName ==
    /\ inp.text \in Tokens
    /\ Validated("validate_name", validate_name(inp.text))

ValidateDesignation ==
    /\ inp.text \in Tokens
    /\ Validated("validate_designation", validate_designation(inp.text))

ValidateSalary ==
    /\ inp.text \in Tokens
    /\ Validated("validate_salary", validate_salary(inp.text))

ValidateAge ==
    /\ inp.text \in Tokens
    /\ Validated("validate_age", validate_age(inp.text))

ValidatePhone ==
    /\ Validated("validate_phone", validate_phone(inp.text))

ValidateAddress ==
    /\ inp.text \in Tokens
    /\ Validated("validate_address", validate_address(inp.text))

NextInput ==
    \/ ValidateName
    \/ ValidateDesignation
    \/ ValidateSalary
    \/ ValidateAge
    \/ ValidatePhone
    \/ ValidateAddress

SpecInput == InitInput /\ [][NextInput]_vars

(***************************************************************************)
(* Properties of the gateway and the mapping, checked under SpecDB and     *)
(* SpecMap.                                                                *)
(***************************************************************************)
LastIs(cs, op) == cs # <<>> /\ cs[Len(cs)].op = op
Last(cs) == cs[Len(cs)]
IdsOf(coll) == { coll[i]._id : i \in 1..Len(coll) }
ProbeOrdinals == (-1)..(MaxStaff + 2)

\* C5: after update_id_mapping(employees) with N employees the mapping has exactly
\* the keys 1..N, key k holds the identifier of the k-th employee, whatever the
\* mapping held before, and a lookup of any other k yields None.
C5_RebuildIsEnumeration ==
    LastIs(calls, "update_id_mapping") =>
        LET employees == Last(calls).arg
        IN /\ DOMAIN id_mapping = 1..Len(employees)
           /\ \A k \in 1..Len(employees) :
                 mapping_get(id_mapping, k) = employees[k]._id
           /\ \A k \in ProbeOrdinals \ (1..Len(employees)) :
                 mapping_get(id_mapping, k) = NoneId

\* C5 witness: update_id_mapping has been handed one employee and the mapping
\* holds the single key 1.
C5_Witness ==
    /\ LastIs(calls, "update_id_mapping")
    /\ Len(Last(calls).arg) = 1
    /\ Len(staff) = 2
    /\ DOMAIN id_mapping = {1}

\* C7 (as claimed): update_employee_by_id with an identifier that matches no
\* stored document returns False, and None is returned only when a document
\* matched and was left unmodified.
C7_UnmatchedUpdateIsFailure ==
    [][LastIs(calls', "update_employee_by_id") =>
         /\ (IndexOfId(staff, Last(calls').emp_id) = 0 => Last(calls').ret = PyFalse)
         /\ (Last(calls').ret = PyNone =>
                /\ IndexOfId(staff, Last(calls').emp_id) # 0
                /\ staff' = staff)]_vars

\* C8: update_employee_by_id returns True iff the call modified a stored
\* document; with a record equal in all six fields to the stored one the store
\* is unchanged and the result is not True, and it is None when the store is
\* reachable.
C8_SuccessIffModified ==
    [][LastIs(calls', "update_employee_by_id") =>
         LET c == Last(calls')
             i == IndexOfId(staff, c.emp_id)
         IN /\ (c.ret = PyTrue) <=> (staff' # staff)
            /\ (i # 0 /\ SixFieldsEqual(staff[i], c.arg[1])) =>
                  /\ staff' = staff
                  /\ c.ret # PyTrue
                  /\ (~c.fault => c.ret = PyNone)]_vars

\* C8 witness: an update with the stored values returned None.
C8_Witness ==
    /\ LastIs(calls, "update_employee_by_id")
    /\ Last(calls).ret = PyNone
    /\ IndexOfId(staff, Last(calls).emp_id) # 0
    /\ SixFieldsEqual(staff[IndexOfId(staff, Last(calls).emp_id)], Last(calls).arg[1])

\* C9: remove_employee_by_id returns True iff the call removed exactly one
\* document, the one with that identifier; on a stored identifier with the store
\* reachable it returns True; on an identifier that is not stored (as after a
\* first successful call) it returns False and leaves the store unchanged.
C9_DeleteTrueIffRemoved ==
    [][LastIs(calls', "remove_employee_by_id") =>
         LET c == Last(calls')
             i == IndexOfId(staff, c.emp_id)
         IN /\ (c.ret = PyTrue) <=>
                  /\ i # 0
                  /\ Len(staff') = Len(staff) - 1
                  /\ staff' = SubSeq(staff, 1, i - 1) \o SubSeq(staff, i + 1, Len(staff))
                  /\ c.emp_id \notin IdsOf(staff')
            /\ (c.ret # PyTrue) => staff' = staff
            /\ (i # 0 /\ ~c.fault) => c.ret = PyTrue
            /\ (LastIs(calls, "remove_employee_by_id")
                   /\ Last(calls).emp_id = c.emp_id
                   /\ Last(calls).ret = PyTrue) =>
                  (c.ret = PyFalse /\ staff' = staff)]_vars

\* C9 witness: with the store reachable, a delete of an identifier the store
\* assigned earlier and no longer holds returned False.
C9_Witness ==
    /\ LastIs(calls, "remove_employee_by_id")
    /\ ~Last(calls).fault
    /\ Last(calls).ret = PyFalse
    /\ Last(calls).emp_id < nextId
    /\ Last(calls).emp_id \notin IdsOf(staff)

\* C10: a successful insert_employee(r) appends exactly one document, with an
\* identifier that is not None and that no stored document has, and with the six
\* fields of r; the other documents are unchanged; get_employee_by_id with that
\* identifier and get_employee_list then yield an Employee equal to r in all six
\* fields, and on an empty store the list holds exactly that one record.
C10_InsertRoundTrip ==
    [][(LastIs(calls', "insert_employee") /\ Last(calls').ret = PyTrue) =>
         LET r == Last(calls').arg[1]
             n == Len(staff')
         IN /\ n = Len(staff) + 1
            /\ SubSeq(staff', 1, n - 1) = staff
            /\ staff'[n]._id # NoneId
            /\ staff'[n]._id \notin IdsOf(staff)
            /\ SixFieldsEqual(staff'[n], r)
            /\ LET got == get_employee_by_id(staff', staff'[n]._id, FALSE)
                   listed == get_employee_list(staff', FALSE)
               IN /\ got.kind = "Employee"
                  /\ SixFieldsEqual(got.val[1], r)
                  /\ get_id(got.val[1]) = staff'[n]._id
                  /\ listed.kind = "list"
                  /\ Len(listed.val) = n
                  /\ SixFieldsEqual(listed.val[n], r)
                  /\ (staff = <<>> => Len(listed.val) = 1)]_vars

\* C10 witness: a successful insert into the empty store.
C10_Witness ==
    /\ LastIs(calls, "insert_employee")
    /\ Last(calls).ret = PyTrue
    /\ Len(staff) = 1
    /\ SixFieldsEqual(staff[1], Last(calls).arg[1])

(***************************************************************************)
(* Properties of the session controller, checked under Spec.               *)
(***************************************************************************)
WorkflowMethods == {"modify_employee", "delete_employee"}

\* The workflow has printed the list and waits for "Enter Employee ID".
AtOrdinalPrompt ==
    /\ stack # <<>>
    /\ Top(stack).fn \in WorkflowMethods
    /\ Top(stack).pc = "ordinal"

\* The mapping is the enumeration 1..N of this list of Employees.
IsEnumerationOf(mapping, employees) ==
    /\ DOMAIN mapping = 1..Len(employees)
    /\ \A k \in 1..Len(employees) : mapping[k] = employees[k]._id

\* C1 (as claimed): at the ordinal prompt of modify_employee / delete_employee,
\* with the list displayed, id_mapping is the enumeration 1..N of the displayed
\* list, so id_mapping[k] is the identifier of the k-th displayed record.
C1_MappingMatchesDisplayedList ==
    (AtOrdinalPrompt /\ shown # <<>>) => IsEnumerationOf(id_mapping, shown)

\* C2 (as claimed): no ordinal is looked up while a delete that removed a record
\* has not been followed by an assignment of id_mapping from a fetched list.
C2_RefreshedAfterDelete ==
    AtOrdinalPrompt => "delete" \notin unrefreshed

\* C3 (as claimed): no ordinal is looked up while a successful insert has not been
\* followed by an assignment of id_mapping from a fetched list, whatever the
\* connectivity of the list fetch that follows the insert.
C3_RefreshedAfterInsert ==
    AtOrdinalPrompt => "insert" \notin unrefreshed

\* C4 (as claimed): at the ordinal prompt, with N records displayed, an ordinal
\* outside 1..N is reported as not found, the workflow goes on to its "another
\* employee?" prompt, and no gateway call is issued.
C4_OutOfRangeIsAbsent ==
    [][(AtOrdinalPrompt /\ shown # <<>> /\ inp'.kind = "int"
          /\ inp'.int \notin 1..Len(shown)) =>
         /\ calls' = <<>>
         /\ out' \subseteq {"Employee not found with ID", "Employee with ID not found."}
         /\ out' # {}
         /\ stack' = SetTop(stack, Frame(Top(stack).fn, "another"))]_vars

AuthenticatedMethods ==
    {"main_menu", "edit_menu", "add_employee", "modify_employee",
     "confirm_modify_employee", "delete_employee", "confirm_delete_employee",
     "search_record"}

\* The last credential check since process start or logout found a document
\* for the entered email whose password is the entered password.
CredentialsMatched ==
    /\ lastLogin.tried
    /\ lastLogin.user.kind = "dict"
    /\ lastLogin.user.val[1].email = lastLogin.email
    /\ lastLogin.user.val[1].password = lastLogin.password
    /\ \E i \in 1..Len(users) : users[i] = lastLogin.user.val[1]

\* C6: the controller stands in main_menu, edit_menu or a leaf workflow only if
\* the last credential check since process start or logout matched; after a
\* not-found result, a wrong password, a failed lookup or a logout it stands in
\* login or login_menu, whatever calls have returned.
C6_MenusOnlyAfterMatch ==
    (stack # <<>> /\ Top(stack).fn \in AuthenticatedMethods) => CredentialsMatched

\* C6 witness: the main menu reached by a second login, after a logout.
C6_Witness ==
    /\ At("main_menu", "choice")
    /\ CredentialsMatched
    /\ \E i \in 1..Len(stack) : stack[i].fn = "main_menu" /\ stack[i].pc = "call_login_menu"

(***************************************************************************)
(* Cancellation, faults and retries in the workflows.                      *)
(***************************************************************************)
MutatingOps == {"insert_employee", "update_employee_by_id", "remove_employee_by_id"}

\* The controller waits for 'Enter' / 'esc' before an insert, update or delete.
AtConfirmPrompt ==
    \/ At("add_employee", "confirm")
    \/ At("confirm_modify_employee", "key")
    \/ At("confirm_delete_employee", "key")

\* The leaf workflow a confirm prompt belongs to.
LeafWorkflowOf(fn) ==
    CASE fn = "add_employee" -> "add_employee"
      [] fn = "confirm_modify_employee" -> "modify_employee"
      [] fn = "confirm_delete_employee" -> "delete_employee"

\* C11: 'esc' at the confirm prompt of add, modify or delete issues no insert,
\* update or delete call, leaves the store as it is, and leaves the controller in
\* the same leaf workflow, at one of its prompts.
C11_CancelKeepsStoreAndWorkflow ==
    [][(AtConfirmPrompt /\ inp' = KeyInput("esc")) =>
         /\ staff' = staff
         /\ nextId' = nextId
         /\ \A i \in 1..Len(calls') : calls'[i].op \notin MutatingOps
         /\ stack' # <<>>
         /\ Top(stack').fn = LeafWorkflowOf(Top(stack).fn)]_vars

\* C11 witness: a delete was cancelled with records stored, and the controller
\* is back at the ordinal prompt of delete_employee.
C11_Witness ==
    /\ inp = KeyInput("esc")
    /\ "Operation canceled." \in out
    /\ At("delete_employee", "ordinal")
    /\ staff # <<>>

\* The value each gateway method returns from its except AutoReconnect clause,
\* as the claim lists them.
FailureValue(op) ==
    CASE op = "find_user_by_email" -> PyFalse
      [] op = "get_employee_list" -> PyNone
      [] op = "insert_employee" -> PyFalse
      [] op = "get_employee_by_id" -> PyFalse
      [] op = "update_employee_by_id" -> PyFalse
      [] op = "remove_employee_by_id" -> PyFalse
      [] op = "search_employee" -> PyList(<<>>)

NotFoundMessages == {"Employee not found with ID", "Employee with ID not found."}

\* C13 (as claimed): at the ordinal prompt of modify_employee / delete_employee,
\* when the ordinal resolves to an identifier and get_employee_by_id, with the
\* store reachable, finds no document for it, the controller reports the employee
\* as not found, not a lost connection, and goes on to the "another employee?"
\* prompt of the same workflow.
C13_UnmatchedIdIsNotFound ==
    [][(AtOrdinalPrompt
          /\ LastIs(calls', "get_employee_by_id")
          /\ ~Last(calls').fault
          /\ Last(calls').ret = PyNone) =>
         /\ out' # {}
         /\ out' \subseteq NotFoundMessages
         /\ stack' = SetTop(stack, Frame(Top(stack).fn, "another"))]_vars

\* The insert, update and delete calls among these calls.
MutatingCalls(cs) == { i \in 1..Len(cs) : cs[i].op \in MutatingOps }

\* C14 (as claimed): for one confirmation at the confirm prompt of add, modify or
\* delete (the 'Enter' of add and delete, the confirmed form of modify) the
\* controller issues at most one insert, update or delete call, whatever the
\* first call returns.
C14_OneCallPerConfirmation ==
    [][(AtConfirmPrompt \/ At("confirm_modify_employee", "fields")) =>
         Cardinality(MutatingCalls(calls')) <= 1]_vars

(***************************************************************************)
(* The search.                                                             *)
(***************************************************************************)
\* Two characters that are equal when letter case is ignored.
SameIgnoringCase(a, b) ==
    a = b \/ \E i \in 1..Len(Upper) : {a, b} = {Upper[i], Lower[i]}

\* The term occurs in the text at some offset, letter case ignored.
OccursIn(term, text) ==
    \E k \in 0..(Len(text) - Len(term)) :
        \A j \in 1..Len(term) : SameIgnoringCase(text[k + j], term[j])

\* The documents of the collection whose name, designation or address holds the term.
HoldingTerm(coll, term) ==
    { i \in 1..Len(coll) : \/ OccursIn(term, coll[i].name)
                           \/ OccursIn(term, coll[i].designation)
                           \/ OccursIn(term, coll[i].address) }

\* C15: with the store reachable, search_employee(term), for a term of letters,
\* digits and spaces, returns a list holding, once each, exactly the stored
\* records whose name, designation or address contains the term as a substring
\* with letter case ignored, and leaves the store unchanged.
C15_SearchReturnsExactlyMatches ==
    [][(LastIs(calls', "search_employee") /\ ~Last(calls').fault) =>
         LET term == Last(calls').text
             found == Last(calls').ret
         IN /\ found.kind = "list"
            /\ staff' = staff
            /\ Len(found.val) = Cardinality(HoldingTerm(staff, term))
            /\ \A i \in HoldingTerm(staff, term) :
                  \E j \in 1..Len(found.val) : found.val[j] = EmployeeFromDoc(staff[i])
            /\ \A j \in 1..Len(found.val) :
                  \E i \in HoldingTerm(staff, term) : found.val[j] = EmployeeFromDoc(staff[i])]_vars

\* C15 witness: the search for "em" over a record with designation "Em" and a
\* record with designation "Ma" returned the first one only.
C15_Witness ==
    /\ LastIs(calls, "search_employee")
    /\ ~Last(calls).fault
    /\ Last(calls).text = <<"e", "m">>
    /\ Len(staff) = 2
    /\ \E i \in 1..2 : staff[i].designation = <<"M", "a">>
    /\ Len(Last(calls).ret.val) = 1
    /\ Last(calls).ret.val[1].designation = <<"E", "m">>

(***************************************************************************)
(* The values the workflows store.                                         *)
(***************************************************************************)
RECURSIVE DecimalDigits(_)
\* The number of decimal digits of a natural number (the length of str(n)).
DecimalDigits(n) == IF n < 10 THEN 1 ELSE 1 + DecimalDigits(n \div 10)

\* The document a successful insert or update call of this step wrote.
WrittenBy(c, coll) ==
    IF c.op = "insert_employee" THEN coll[Len(coll)] ELSE coll[IndexOfId(coll, c.emp_id)]

\* C16 (as claimed): every document a successful insert of add_employee or
\* update of confirm_modify_employee writes holds a phone value of exactly ten
\* decimal digits.
C16_StoredPhoneHasTenDigits ==
    [][\A i \in 1..Len(calls') :
          (calls'[i].op \in {"insert_employee", "update_employee_by_id"}
             /\ calls'[i].ret = PyTrue) =>
          DecimalDigits(WrittenBy(calls'[i], staff').phone) = PhoneLength]_vars

(***************************************************************************)
(* Properties of the validators, checked under SpecInput.                  *)
(***************************************************************************)
\* The token consists of decimal digits only (at least one).
AllDecimal(t) == t # <<>> /\ \A i \in 1..Len(t) : IsDecimalChar(t[i])

\* C17 (as claimed): validate_salary returns True iff the token consists of
\* decimal digits only and its value is at least 500, and returns False for every
\* digit string below 500 and for every token with a character that is no
\* decimal digit (the empty token, a sign, a decimal point included).
C17_SalaryAcceptedIffAtLeast500 ==
    LastIs(calls, "validate_salary") =>
        LET t == Last(calls).text
        IN /\ (Last(calls).ret = PyTrue) <=> (AllDecimal(t) /\ int(t) >= 500)
           /\ (AllDecimal(t) /\ int(t) < 500) => Last(calls).ret = PyFalse
           /\ ~AllDecimal(t) => Last(calls).ret = PyFalse

\* C18 (as claimed): validate_age returns True iff the token consists of decimal
\* digits only and its value lies in 18..99, and returns False otherwise.
C18_AgeAcceptedIffIn18To99 ==
    LastIs(calls, "validate_age") =>
        LET t == Last(calls).text
        IN /\ (Last(calls).ret = PyTrue) <=> (AllDecimal(t) /\ int(t) \in 18..99)
           /\ (Last(calls).ret # PyTrue) => Last(calls).ret = PyFalse

\* C19 (as claimed): validate_phone returns True iff every character of the
\* token is a decimal digit and the token is exactly 10 characters long, and
\* returns False otherwise.
C19_PhoneAcceptedIffTenDecimalDigits ==
    LastIs(calls, "validate_phone") =>
        LET t == Last(calls).text
        IN /\ (Last(calls).ret = PyTrue) <=> (AllDecimal(t) /\ Len(t) = 10)
           /\ (Last(calls).ret # PyTrue) => Last(calls).ret = PyFalse

\* C20: validate_name and validate_designation return True iff every character
\* of the token is alphabetic or a space and at least one is alphabetic, and
\* return False otherwise: for a token with any other character, for the empty
\* token and for a token of spaces only.
C20_NameAcceptedIffLettersAndSpaces ==
    (LastIs(calls, "validate_name") \/ LastIs(calls, "validate_designation")) =>
        LET t == Last(calls).text
        IN /\ (Last(calls).ret = PyTrue) <=>
                 /\ \A i \in 1..Len(t) : t[i] \in Letters \/ t[i] = " "
                 /\ \E i \in 1..Len(t) : t[i] \in Letters
           /\ (Last(calls).ret # PyTrue) => Last(calls).ret = PyFalse

\* C20 witness: validate_name accepted a token of letters around a space.
C20_Witness ==
    /\ LastIs(calls, "validate_name")
    /\ Last(calls).text = <<"x", " ", "x">>
    /\ Last(calls).ret = PyTrue

(***************************************************************************)
(* The modify and delete workflows, from the confirm prompt on.            *)
(***************************************************************************)
\* The value a field has after a modify: the stored one for an empty token,
\* the new one otherwise.
KeptOrNew(token, stored, new) == IF token = <<>> THEN stored ELSE new

\* The six fields of the document are what the form asks for, given the
\* document stored before.
FieldsFollowForm(doc, form, stored) ==
    /\ doc.name = KeptOrNew(strip(form.name), stored.name, strip(form.name))
    /\ doc.designation =
          KeptOrNew(strip(form.designation), stored.designation, strip(form.designation))
    /\ doc.salary = KeptOrNew(strip(form.salary), stored.salary, int(strip(form.salary)))
    /\ doc.age = KeptOrNew(strip(form.age), stored.age, int(strip(form.age)))
    /\ doc.phone = KeptOrNew(strip(form.phone), stored.phone, int(strip(form.phone)))
    /\ doc.address = KeptOrNew(strip(form.address), stored.address, strip(form.address))

AllBlank(form) ==
    /\ strip(form.name) = <<>>
    /\ strip(form.designation) = <<>>
    /\ strip(form.salary) = <<>>
    /\ strip(form.age) = <<>>
    /\ strip(form.phone) = <<>>
    /\ strip(form.address) = <<>>

NoFaultIn(cs) == \A k \in 1..Len(cs) : ~cs[k].fault

\* The six prompts of confirm_modify_employee have been answered with a form
\* that reaches the update.
ModifyFormSubmitted ==
    /\ At("confirm_modify_employee", "fields")
    /\ inp'.kind = "form"
    /\ ~ModifyFormRaises(inp'.form)

\* C21: after the six prompts of confirm_modify_employee, the document of the
\* record is either as stored before or has, field by field, the stored value
\* where the token was empty and the validated new value elsewhere, and it has
\* the latter when the store is reachable; with six empty tokens and the store
\* reachable the collection is unchanged and the only report is "No changes
\* found.".
C21_BlankKeepsStoredValue ==
    [][ModifyFormSubmitted =>
         LET form == inp'.form
             i == IndexOfId(staff, Top(stack).emp_id)
         IN /\ i # 0
            /\ staff'[i] = staff[i] \/ FieldsFollowForm(staff'[i], form, staff[i])
            /\ NoFaultIn(calls') => FieldsFollowForm(staff'[i], form, staff[i])
            /\ (AllBlank(form) /\ NoFaultIn(calls')) =>
                  /\ staff' = staff
                  /\ out' = {"No changes found."}]_vars

\* C21 witness: a modify with a new name and salary and the other prompts left
\* blank was stored, the record keeping its designation, age, phone and address.
C21_Witness ==
    /\ inp.kind = "form"
    /\ strip(inp.form.name) = <<"x">>
    /\ strip(inp.form.designation) = <<>>
    /\ "Employee updated successfully!" \in out
    /\ \E i \in 1..Len(staff) :
          /\ staff[i].name = <<"x">>
          /\ staff[i].salary = 500
          /\ staff[i].designation = <<"E", "m">>
          /\ staff[i].age = 30

(***************************************************************************)
(* The three menus.                                                        *)
(***************************************************************************)
Menus == {"login_menu", "main_menu", "edit_menu"}
MenuOptions(fn) == IF fn = "login_menu" THEN 1..2 ELSE 1..4
Unlisted(fn, choice) ==
    \/ choice.kind = "text"
    \/ choice.kind = "int" /\ choice.int \notin MenuOptions(fn)

\* C22: in the login menu, the main menu and the edit menu, a numeric choice
\* the menu does not list, or an input that is not a number, leaves the call
\* stack (the controller at the same menu prompt), the collection, the
\* ordinal mapping and the authentication state as they were, and calls the
\* gateway not at all.
C22_InvalidChoiceStaysInMenu ==
    [][\A fn \in Menus :
         (At(fn, "choice") /\ Unlisted(fn, inp')) =>
            /\ stack' = stack
            /\ staff' = staff
            /\ nextId' = nextId
            /\ id_mapping' = id_mapping
            /\ lastLogin' = lastLogin
            /\ calls' = <<>>
            /\ out' = {InvalidChoice(inp')}]_vars

\* C22 witness: the main menu, entered after a login with records stored and
\* enumerated, has just rejected the unlisted choice 5.
C22_Witness ==
    /\ At("main_menu", "choice")
    /\ inp = IntInput(5)
    /\ out = {"Invalid choice! Please try again."}
    /\ staff # <<>>
    /\ id_mapping # EmptyMapping
    /\ lastLogin # NoLogin

\* C23: for one confirmed modify, "Employee updated successfully!" is reported
\* exactly when that modify changed the collection, and "Lost connection to
\* MongoDB while updating employee." only when it left the collection as it
\* was, whichever of the two update calls meets a connectivity fault.
C23_SuccessIffChanged ==
    [][ModifyFormSubmitted =>
         /\ ("Employee updated successfully!" \in out') <=> (staff' # staff)
         /\ ("Lost connection to MongoDB while updating employee." \in out')
               => (staff' = staff)]_vars

\* The collection without its i-th document.
WithoutDoc(coll, i) == SubSeq(coll, 1, i - 1) \o SubSeq(coll, i + 1, Len(coll))

\* C24: 'Enter' at the prompt of confirm_delete_employee leaves the collection
\* as it was or takes out of it exactly one document, the one whose details
\* were displayed before the prompt; every other document stays, unchanged
\* and in place.
C24_DeleteRemovesDisplayedOnly ==
    [][(At("confirm_delete_employee", "key") /\ inp' = KeyInput("enter")) =>
         \/ staff' = staff
         \/ \E i \in 1..Len(staff) :
               /\ staff[i] = Top(stack).employee[1]
               /\ staff' = WithoutDoc(staff, i)]_vars

\* C24 witness: of two stored records the second was displayed and deleted,
\* the first is still there.
C24_Witness ==
    /\ inp = KeyInput("enter")
    /\ "Employee deleted successfully!" \in out
    /\ nextId = 3
    /\ Len(staff) = 1
    /\ staff[1]._id = 1

\* C25: answering the six prompts of confirm_modify_employee leaves the number
\* of documents and every identifier as they were, and changes no document
\* other than the one displayed before the prompts.
C25_ModifyTouchesDisplayedFieldsOnly ==
    [][(At("confirm_modify_employee", "fields") /\ inp'.kind = "form") =>
         /\ Len(staff') = Len(staff)
         /\ \A i \in 1..Len(staff) :
               /\ staff'[i]._id = staff[i]._id
               /\ staff[i]._id # get_id(Top(stack).employee[1]) => staff'[i] = staff[i]]_vars

\* C25 witness: with two records stored, a modify of the second was stored
\* and the first still holds other values.
C25_Witness ==
    /\ inp.kind = "form"
    /\ "Employee updated successfully!" \in out
    /\ Len(staff) = 2
    /\ staff[2].name = <<"x">>
    /\ staff[1].name # <<"x">>

\* C26: "No employees found to modify." and "No employees found to delete."
\* are reported only while the collection holds no document.
C26_EmptyReportOnlyWhenEmpty ==
    ("No employees found to modify." \in out \/ "No employees found to delete." \in out)
        => staff = <<>>

\* C27: going back to a menu resumes the activation of that menu already on
\* the call stack, so no menu has two activations on the stack at once.
C27_MenuActivatedOnce ==
    \A i \in 1..Len(stack), j \in 1..Len(stack) :
        (i < j /\ stack[i].fn = stack[j].fn) => stack[i].fn \notin Menus

====
